---- MODULE Spec2Model ----
(***************************************************************************)
(* Model of the WebSocket relay server of server.py: the WebSocketManager  *)
(* registry, the authenticate handshake, the per-connection coroutine      *)
(* handle_message and the periodic health_check task.                      *)
(*                                                                         *)
(* The asyncio event loop runs one coroutine at a time and switches only   *)
(* at an await that really suspends.  Each action below is the code that   *)
(* runs between two such suspension points.                                *)
(***************************************************************************)
EXTENDS Integers, Sequences, FiniteSets, TLC

\* ---------------------------------------------------------------- bounds
\* number of physical connections the server accepts in one run
MaxConns == 2

\* ------------------------------------------------------------- constants
CONNECTION_TIMEOUT == 300
SecondsPerDay == 86400

\* ------------------------------------------------------------ value sets
\* Python's None, for string-valued fields
None == "None"
\* absent connection handle / absent connection_id / absent datetime
NoConn == 0
NoId == 0
NoTime == -1

Users == {"alice", "bob"}
\* an identity that never authenticates
Stranger == "charlie"
Channels == {"news"}
\* the instants datetime.now() returns during a run (seconds)
Instants == {0, 301}

Conns == 1..MaxConns
ConnIds == 1..MaxConns

\* Python truthiness of a str-or-None value
Truthy(x) == x # None /\ x # ""

\* ---------------------------------------------------------------- frames
\* An inbound frame.  json: the text parses as a JSON object; keys: the
\* top-level keys present; the rest are the values read by the handlers
\* (None when the key is missing).
Frame(json, keys, type, uid, token, target, content, channel, mid) ==
    [json |-> json, keys |-> keys, type |-> type, user_id |-> uid,
     token |-> token, target_user |-> target, content |-> content,
     channel |-> channel, message_id |-> mid]

FullKeys == {"type", "data", "timestamp"}
BadJson == Frame(FALSE, {}, None, None, None, None, None, None, None)
NoFrame == Frame(FALSE, {}, "-", None, None, None, None, None, None)

AuthFrame(keys, type, uid, token) ==
    Frame(TRUE, keys, type, uid, token, None, None, None, None)

\* first frames a client may send
AuthFrames ==
    {AuthFrame(FullKeys, "auth", u, "demo-token") : u \in Users}
    \cup {AuthFrame({"type", "data"}, "auth", u, "demo-token") : u \in Users}
    \cup {AuthFrame(FullKeys, "ping", "alice", "demo-token"),
          AuthFrame(FullKeys, "auth", "", "demo-token"),
          AuthFrame(FullKeys, "auth", None, "demo-token"),
          AuthFrame(FullKeys, "auth", "alice", ""),
          AuthFrame(FullKeys, "auth", "alice", None),
          AuthFrame({"type", "timestamp"}, "auth", None, None),
          AuthFrame({"data", "timestamp"}, None, "alice", "demo-token"),
          BadJson}

SendFrame(keys, target, content, mid) ==
    Frame(TRUE, keys \cup (IF mid = None THEN {} ELSE {"message_id"}),
          "send_message", None, None, target, content, None, mid)

\* frames a client may send once authenticated
LoopFrames ==
    {SendFrame(FullKeys, t, "hi", m) :
        t \in Users \cup {Stranger}, m \in {"m1", None}}
    \cup {SendFrame({"type", "data"}, "bob", "hi", "m1"),
          SendFrame(FullKeys, "bob", "", "m1"),
          SendFrame(FullKeys, None, "hi", "m1")}
    \cup {Frame(TRUE, FullKeys, "ping", None, None, None, None, None, None),
          Frame(TRUE, {"type"}, "ping", None, None, None, None, None, None),
          Frame(TRUE, FullKeys, "get_online_users", None, None, None, None, None, None),
          Frame(TRUE, {"type", "timestamp"}, "get_online_users", None, None, None, None, None, None),
          Frame(TRUE, FullKeys, "hello", None, None, None, None, None, None),
          BadJson}

\* subscription frames
ChannelFrames ==
    {Frame(TRUE, FullKeys, "subscribe", None, None, None, None, "news", None),
     Frame(TRUE, FullKeys, "unsubscribe", None, None, None, None, "news", None)}

\* -------------------------------------------------------------- messages
\* An outbound envelope, reduced to the fields the handlers set.
Msg(type, user, from, cid, mid, status, content, users) ==
    [type |-> type, user |-> user, from |-> from, cid |-> cid, mid |-> mid,
     status |-> status, content |-> content, users |-> users]

ErrorMsg == Msg("error", None, None, NoId, None, None, None, {})
WelcomeMsg(u, cid) == Msg("connection_established", u, None, cid, None, None, None, {})
UserOnlineMsg(u) == Msg("user_online", u, "system", NoId, None, None, None, {})
UserOfflineMsg(u) == Msg("user_offline", u, "system", NoId, None, None, None, {})
PongMsg == Msg("pong", None, None, NoId, None, None, None, {})
NewMessageMsg(from, to, content) == Msg("new_message", to, from, NoId, None, None, content, {})
ReceiptMsg(mid, ok, target) ==
    Msg("message_receipt", target, None, NoId, mid,
        IF ok THEN "delivered" ELSE "failed", None, {})
OnlineUsersMsg(us) == Msg("online_users", None, None, NoId, None, None, None, us)

VARIABLES
    ws_manager,     \* the global WebSocketManager instance
    next_uuid,      \* number of connection ids issued by uuid.uuid4()
    now,            \* the wall clock read by datetime.now()
    pc,             \* per connection: position of its handle_message coroutine
    user_id,        \* per connection: local variable user_id
    connection_id,  \* per connection: local variable connection_id
    open,           \* per connection: the transport is open (writes succeed)
    pending,        \* per connection: the send_to_user call awaiting its write
    last            \* what the last step did: operation, result, writes

vars == <<ws_manager, next_uuid, now, pc, user_id, connection_id, open, pending, last>>

\* ------------------------------------------------------ WebSocketManager
WebSocketManagerInit ==
    [user_connections |-> [u \in Users |-> NoConn],
     connection_users |-> [i \in ConnIds |-> None],
     user_channels    |-> [u \in Users |-> {}],
     active_users     |-> [u \in Users |-> NoTime]]

\* register that keeps the handle of an identity already present
register_keep_old(m, websocket, u, cid, t) ==
    [m EXCEPT !.connection_users[cid] = u,
              !.user_connections[u] =
                  IF m.user_connections[u] = NoConn THEN websocket ELSE @,
              !.active_users[u] = t]

\* register: the id uuid4 returns is `cid`; t is datetime.now()
register(m, websocket, u, cid, t) ==
    [m EXCEPT !.connection_users[cid] = u,
              !.user_connections[u] = websocket,
              !.active_users[u] = t]

\* unregister that forgets to delete the active_users entry
unregister_keeps_active(m, u, cid) ==
    [m EXCEPT !.user_connections[u] = NoConn,
              !.connection_users =
                  [i \in ConnIds |-> IF i = cid THEN None ELSE m.connection_users[i]]]

\* unregister that never deletes the connection_users entry
unregister_keeps_connection_id(m, u, cid) ==
    [m EXCEPT !.user_connections[u] = NoConn,
              !.active_users[u] = NoTime]

\* unregister(user_id, connection_id=None); cid = NoId stands for None
unregister(m, u, cid) ==
    [m EXCEPT !.user_connections[u] = NoConn,
              !.connection_users =
                  [i \in ConnIds |-> IF i = cid THEN None ELSE m.connection_users[i]],
              !.active_users[u] = NoTime]

get_online_users(m) == {u \in Users : m.active_users[u] # NoTime}

update_user_activity(m, u, t) == [m EXCEPT !.active_users[u] = t]

\* the identities send_to_user finds a connection for
Registered(m) == {u \in Users : m.user_connections[u] # NoConn}


\* ---------------------------------------------------------- step records
\* one attempted write of envelope msg to connection `to`; ok: the transport
\* was open, so websocket.send returned instead of raising ConnectionClosed
Wr(to, msg) == [to |-> to, ok |-> open[to], msg |-> msg]

\* what a step did: op names the code that ran, conn the connection whose
\* coroutine ran (NoConn for the health_check task and the clock), frame the
\* frame it consumed, ret the value send_to_user returned ("True"/"False",
\* None when it was not called), raised whether the code left through an
\* exception, writes the attempted writes in order, evicted the identities
\* health_check unregistered
Ev(op, c, f, ret, raised, writes, evicted) ==
    [op |-> op, conn |-> c, frame |-> f, ret |-> ret, raised |-> raised,
     writes |-> writes, evicted |-> evicted]

NoPending == [user |-> None, websocket |-> NoConn, frame |-> NoFrame]

RECURSIVE SeqOf(_)
\* the elements of a finite set, in some fixed order
SeqOf(S) ==
    IF S = {} THEN <<>>
    ELSE LET x == CHOOSE y \in S : TRUE IN <<x>> \o SeqOf(S \ {x})

\* ---------------------------------------------------------- MessageHandler
validate_message(f) == \A k \in {"type", "data", "timestamp"} : k \in f.keys

\* ------------------------------------------------------------ authenticate
\* message.get("type"), message.get("data", {}).get(...)
FrameType(f) == IF "type" \in f.keys THEN f.type ELSE None
DataGet(f, v) == IF "data" \in f.keys THEN v ELSE None

\* authenticate that does not look at the token
authenticate_without_token(f) ==
    IF FrameType(f) = "auth" /\ Truthy(DataGet(f, f.user_id))
    THEN f.user_id
    ELSE None

authenticate(f) ==
    IF FrameType(f) = "auth"
          /\ Truthy(DataGet(f, f.user_id)) /\ Truthy(DataGet(f, f.token))
    THEN f.user_id
    ELSE None

\* ---------------------------------------------------------------- broadcast
\* a broadcast that ignores exclude_user
broadcast_targets_all(m, exclude) == Registered(m)

\* the recipients broadcast collects from user_connections.items()
broadcast_targets(m, exclude) == {u \in Registered(m) : u # exclude}

\* the sends broadcast hands to asyncio.gather, one per recipient
broadcast(m, msg, exclude) ==
    LET us == SeqOf(broadcast_targets(m, exclude))
    IN  [i \in 1..Len(us) |-> Wr(m.user_connections[us[i]], msg)]

\* asyncio.gather without return_exceptions re-raises the first failure
gather_raises(writes) == \E i \in 1..Len(writes) : ~writes[i].ok

\* ------------------------------------------------------------------- Init
Init ==
    /\ ws_manager = WebSocketManagerInit
    /\ next_uuid = 0
    /\ now = 0
    /\ pc = [c \in Conns |-> "new"]
    /\ user_id = [c \in Conns |-> None]
    /\ connection_id = [c \in Conns |-> NoId]
    /\ open = [c \in Conns |-> FALSE]
    /\ pending = [c \in Conns |-> NoPending]
    /\ last = Ev("init", NoConn, NoFrame, None, FALSE, <<>>, {})

\* ---------------------------------------------------------------- actions
\* websockets.serve accepts a connection and starts handle_message on it
Accept(c) ==
    /\ pc[c] = "new"
    /\ pc' = [pc EXCEPT ![c] = "auth"]
    /\ open' = [open EXCEPT ![c] = TRUE]
    /\ last' = Ev("accept", c, NoFrame, None, FALSE, <<>>, {})
    /\ UNCHANGED <<ws_manager, next_uuid, now, user_id, connection_id, pending>>

\* the peer or the network closes the transport of c
Drop(c) ==
    /\ pc[c] \notin {"new", "closed"}
    /\ open[c]
    /\ open' = [open EXCEPT ![c] = FALSE]
    /\ last' = Ev("drop", c, NoFrame, None, FALSE, <<>>, {})
    /\ UNCHANGED <<ws_manager, next_uuid, now, pc, user_id, connection_id, pending>>

\* datetime.now() advances
Tick ==
    /\ \E t \in Instants : t > now /\ now' = t
    /\ last' = Ev("tick", NoConn, NoFrame, None, FALSE, <<>>, {})
    /\ UNCHANGED <<ws_manager, next_uuid, pc, user_id, connection_id, open, pending>>

\* handle_message leaves without a user_id: the finally block does nothing
\* and the server closes the transport
Leave(c) ==
    /\ pc' = [pc EXCEPT ![c] = "closed"]
    /\ open' = [open EXCEPT ![c] = FALSE]

\* the first frame arrives within the 10 s bound: json.loads, authenticate,
\* then either the error reply or register followed, with no suspension in
\* between, by the write of connection_established on the new connection
AuthRecv(c, f) ==
    /\ pc[c] = "auth"
    /\ IF ~f.json
       THEN \* json.loads raises, caught by `except Exception`
            /\ Leave(c)
            /\ last' = Ev("auth", c, f, None, TRUE, <<>>, {})
            /\ UNCHANGED <<ws_manager, next_uuid, user_id, connection_id>>
       ELSE IF authenticate(f) = None
       THEN /\ Leave(c)
            /\ last' = Ev("auth", c, f, None, ~open[c], <<Wr(c, ErrorMsg)>>, {})
            /\ UNCHANGED <<ws_manager, next_uuid, user_id, connection_id>>
       ELSE /\ next_uuid' = next_uuid + 1
            /\ user_id' = [user_id EXCEPT ![c] = authenticate(f)]
            /\ connection_id' = [connection_id EXCEPT ![c] = next_uuid + 1]
            /\ ws_manager' = register(ws_manager, c, authenticate(f), next_uuid + 1, now)
            /\ pc' = [pc EXCEPT ![c] = "welcome"]
            /\ last' = Ev("register", c, f, None, FALSE,
                          <<Wr(c, WelcomeMsg(authenticate(f), next_uuid + 1))>>, {})
            /\ UNCHANGED open
    /\ UNCHANGED <<now, pending>>

\* asyncio.wait_for raises TimeoutError: no frame arrived within the bound
AuthTimeout(c) ==
    /\ pc[c] = "auth"
    /\ Leave(c)
    /\ last' = Ev("auth_timeout", c, NoFrame, None, TRUE, <<>>, {})
    /\ UNCHANGED <<ws_manager, next_uuid, now, user_id, connection_id, pending>>

\* websocket.recv() raises ConnectionClosed before any frame arrived
AuthClosed(c) ==
    /\ pc[c] = "auth"
    /\ ~open[c]
    /\ Leave(c)
    /\ last' = Ev("auth_closed", c, NoFrame, None, TRUE, <<>>, {})
    /\ UNCHANGED <<ws_manager, next_uuid, now, user_id, connection_id, pending>>

\* await websocket.send(welcome_msg) returns, or raises ConnectionClosed when
\* the transport closed before the frame was flushed
Welcome(c) ==
    /\ pc[c] = "welcome"
    /\ pc' = [pc EXCEPT ![c] = IF open[c] THEN "online" ELSE "cleanup"]
    /\ last' = Ev("welcome", c, NoFrame, None, ~open[c], <<>>, {})
    /\ UNCHANGED <<ws_manager, next_uuid, now, user_id, connection_id, open, pending>>

\* await ws_manager.broadcast(user_online, exclude_user=user_id)
Online(c) ==
    /\ pc[c] = "online"
    /\ LET ws == broadcast(ws_manager, UserOnlineMsg(user_id[c]), user_id[c])
       IN  /\ pc' = [pc EXCEPT ![c] = IF gather_raises(ws) THEN "cleanup" ELSE "loop"]
           /\ last' = Ev("broadcast_online", c, NoFrame, None, gather_raises(ws), ws, {})
    /\ UNCHANGED <<ws_manager, next_uuid, now, user_id, connection_id, open, pending>>

\* ------------------------------------------------------------ send_to_user
\* a lookup that falls back to the first connection for an unknown identity
send_lookup_default(m, u) == IF u \in Users THEN m.user_connections[u] ELSE 1

\* `if user_id in self.user_connections`
send_lookup(m, u) == IF u \in Users THEN m.user_connections[u] ELSE NoConn

\* a failure branch that returns False and leaves the Session in place
send_failed_keeps_session(m, u) == m

\* the `except ConnectionClosed` branch: await self.unregister(user_id)
send_failed(m, u) == unregister(m, u, NoId)

\* the receipt handle_message builds from the frame and the send result
receipt(f, success) == ReceiptMsg(f.message_id, success, f.target_user)

\* ---------------------------------------------------------- the main loop
\* one iteration of `async for message in websocket` up to its first
\* suspension: json.loads, validate_message, update_user_activity, dispatch
Recv(c, f) ==
    /\ pc[c] = "loop"
    /\ IF ~f.json \/ ~validate_message(f)
       THEN \* JSONDecodeError is logged; an invalid frame is skipped
            /\ last' = Ev("dropped", c, f, None, ~f.json, <<>>, {})
            /\ UNCHANGED <<ws_manager, pc, pending>>
       ELSE LET m1 == update_user_activity(ws_manager, user_id[c], now) IN
            CASE f.type = "ping" ->
                   /\ ws_manager' = m1
                   /\ last' = Ev("ping", c, f, None, ~open[c], <<Wr(c, PongMsg)>>, {})
                   /\ UNCHANGED <<pc, pending>>
              [] f.type = "send_message" ->
                   IF Truthy(f.target_user) /\ Truthy(f.content)
                   THEN IF send_lookup(m1, f.target_user) = NoConn
                        THEN \* send_to_user returns False at once
                             /\ ws_manager' = m1
                             /\ last' = Ev("send_message", c, f, "False", ~open[c],
                                           <<Wr(c, receipt(f, FALSE))>>, {})
                             /\ UNCHANGED <<pc, pending>>
                        ELSE \* send_to_user awaits the write to the target
                             /\ ws_manager' = m1
                             /\ pc' = [pc EXCEPT ![c] = "sending"]
                             /\ pending' = [pending EXCEPT ![c] =
                                   [user |-> f.target_user,
                                    websocket |-> send_lookup(m1, f.target_user),
                                    frame |-> f]]
                             /\ last' = Ev("send_start", c, f, None, FALSE, <<>>, {})
                   ELSE /\ ws_manager' = m1
                        /\ last' = Ev("ignored", c, f, None, FALSE, <<>>, {})
                        /\ UNCHANGED <<pc, pending>>
              [] f.type = "subscribe" ->
                   /\ ws_manager' =
                        IF Truthy(f.channel)
                        THEN [m1 EXCEPT !.user_channels[user_id[c]] = @ \cup {f.channel}]
                        ELSE m1
                   /\ last' = Ev("subscribe", c, f, None, FALSE, <<>>, {})
                   /\ UNCHANGED <<pc, pending>>
              [] f.type = "unsubscribe" ->
                   /\ ws_manager' =
                        IF Truthy(f.channel)
                        THEN [m1 EXCEPT !.user_channels[user_id[c]] = @ \ {f.channel}]
                        ELSE m1
                   /\ last' = Ev("unsubscribe", c, f, None, FALSE, <<>>, {})
                   /\ UNCHANGED <<pc, pending>>
              [] f.type = "get_online_users" ->
                   /\ ws_manager' = m1
                   /\ last' = Ev("get_online_users", c, f, None, ~open[c],
                                 <<Wr(c, OnlineUsersMsg(get_online_users(m1)))>>, {})
                   /\ UNCHANGED <<pc, pending>>
              [] OTHER ->
                   /\ ws_manager' = m1
                   /\ last' = Ev("ignored", c, f, None, FALSE, <<>>, {})
                   /\ UNCHANGED <<pc, pending>>
    /\ UNCHANGED <<next_uuid, now, user_id, connection_id, open>>

\* the write send_to_user awaited completes or raises ConnectionClosed, then
\* handle_message sends the receipt on its own connection
SendDone(c) ==
    /\ pc[c] = "sending"
    /\ LET p  == pending[c]
           ok == open[p.websocket]
       IN  /\ ws_manager' = IF ok THEN ws_manager ELSE send_failed(ws_manager, p.user)
           /\ last' = Ev("send_message", c, p.frame, IF ok THEN "True" ELSE "False",
                         ~open[c],
                         <<Wr(p.websocket,
                              NewMessageMsg(user_id[c], p.user, p.frame.content)),
                           Wr(c, receipt(p.frame, ok))>>, {})
    /\ pc' = [pc EXCEPT ![c] = "loop"]
    /\ pending' = [pending EXCEPT ![c] = NoPending]
    /\ UNCHANGED <<next_uuid, now, user_id, connection_id, open>>

\* the transport is closed: `async for` ends or raises ConnectionClosed
LoopEnd(c) ==
    /\ pc[c] = "loop"
    /\ ~open[c]
    /\ pc' = [pc EXCEPT ![c] = "cleanup"]
    /\ last' = Ev("loop_end", c, NoFrame, None, TRUE, <<>>, {})
    /\ UNCHANGED <<ws_manager, next_uuid, now, user_id, connection_id, open, pending>>

\* the finally block of handle_message, reached with user_id set:
\* unregister(user_id, connection_id), then broadcast user_offline
Finally(c) ==
    /\ pc[c] = "cleanup"
    /\ LET m1 == unregister(ws_manager, user_id[c], connection_id[c])
           ws == broadcast(m1, UserOfflineMsg(user_id[c]), user_id[c])
       IN  /\ ws_manager' = m1
           /\ last' = Ev("cleanup", c, NoFrame, None, gather_raises(ws), ws, {})
    /\ pc' = [pc EXCEPT ![c] = "closed"]
    /\ open' = [open EXCEPT ![c] = FALSE]
    /\ UNCHANGED <<next_uuid, now, user_id, connection_id, pending>>

\* ------------------------------------------------------------ health_check
\* timedelta.seconds: the seconds field of the normalised difference
seconds(delta) == delta % SecondsPerDay

\* a reaper that compares the seconds field with the length of a day
inactive_users_over_a_day(m, t) ==
    {u \in Users : m.active_users[u] # NoTime
                   /\ seconds(t - m.active_users[u]) > SecondsPerDay}

inactive_users(m, t) ==
    {u \in Users : m.active_users[u] # NoTime
                   /\ seconds(t - m.active_users[u]) > CONNECTION_TIMEOUT}

RECURSIVE unregister_all(_, _)
\* `for user_id in inactive_users: await ws_manager.unregister(user_id)`
unregister_all(m, us) ==
    IF us = {} THEN m
    ELSE LET u == CHOOSE x \in us : TRUE
         IN  unregister_all(unregister(m, u, NoId), us \ {u})

\* one round of the health_check loop after its sleep
health_check ==
    /\ ws_manager' = unregister_all(ws_manager, inactive_users(ws_manager, now))
    /\ last' = Ev("health_check", NoConn, NoFrame, None, FALSE, <<>>,
                  inactive_users(ws_manager, now))
    /\ UNCHANGED <<next_uuid, now, pc, user_id, connection_id, open, pending>>

\* ------------------------------------------------------------------- Next
Next ==
    \/ \E c \in Conns : Accept(c)
    \/ \E c \in Conns : Drop(c)
    \/ Tick
    \/ \E c \in Conns : \E f \in AuthFrames : AuthRecv(c, f)
    \/ \E c \in Conns : AuthTimeout(c)
    \/ \E c \in Conns : AuthClosed(c)
    \/ \E c \in Conns : Welcome(c)
    \/ \E c \in Conns : Online(c)
    \/ \E c \in Conns : \E f \in LoopFrames : Recv(c, f)
    \/ \E c \in Conns : SendDone(c)
    \/ \E c \in Conns : LoopEnd(c)
    \/ \E c \in Conns : Finally(c)
    \/ health_check

Spec == Init /\ [][Next]_vars

\* the health_check task is created in main and loops forever, sleeping between
\* rounds, and the wall clock goes on: both keep taking their steps
SpecFair == Init /\ [][Next]_vars /\ WF_vars(Tick) /\ WF_vars(health_check)

\* ------------------------------------------------------ with subscriptions
\* the main loop also receives subscribe and unsubscribe frames
NextChannels ==
    \/ Next
    \/ \E c \in Conns : \E f \in ChannelFrames : Recv(c, f)

SpecChannels == Init /\ [][NextChannels]_vars

\* ------------------------------------------------- the reaper on its own
\* readings datetime.now() can return: the wall clock may stand a second
\* or a day apart from a recorded last activity, in either direction
WallClock == {0, 300, 301, 86400, 86701}

\* the registries register builds for alice on connection 1 and bob on connection 2
ActiveRegistries ==
    {register(register(WebSocketManagerInit, 1, "alice", 1, ta), 2, "bob", 2, tb) :
        ta \in WallClock, tb \in WallClock}

\* both connections ACTIVE in the main loop, the clock at any reading
InitReaper ==
    /\ ws_manager \in ActiveRegistries
    /\ next_uuid = 2
    /\ now \in WallClock
    /\ pc = [c \in Conns |-> IF c \in {1, 2} THEN "loop" ELSE "new"]
    /\ user_id = [c \in Conns |-> IF c = 1 THEN "alice" ELSE IF c = 2 THEN "bob" ELSE None]
    /\ connection_id = [c \in Conns |-> IF c \in {1, 2} THEN c ELSE NoId]
    /\ open = [c \in Conns |-> c \in {1, 2}]
    /\ pending = [c \in Conns |-> NoPending]
    /\ last = Ev("init", NoConn, NoFrame, None, FALSE, <<>>, {})

\* datetime.now() reads the wall clock, which is not monotonic
SetClock ==
    /\ \E t \in WallClock : t # now /\ now' = t
    /\ last' = Ev("tick", NoConn, NoFrame, None, FALSE, <<>>, {})
    /\ UNCHANGED <<ws_manager, next_uuid, pc, user_id, connection_id, open, pending>>

NextReaper ==
    \/ SetClock
    \/ health_check

SpecReaper == InitReaper /\ [][NextReaper]_vars

\* ================================================================ claims

\* C1: the cleanup unregister(I, c1) of a connection that is not the handle of
\* I's current Session leaves I registered with the newer handle and online.
C1_StaleUnregisterKeepsNewer ==
    [][\A c \in Conns :
         (/\ pc[c] = "cleanup" /\ pc'[c] = "closed"
          /\ ws_manager.user_connections[user_id[c]] \notin {NoConn, c})
         => /\ ws_manager'.user_connections[user_id[c]]
                 = ws_manager.user_connections[user_id[c]]
            /\ user_id[c] \in get_online_users(ws_manager')]_vars

\* C2: two registrations never share a connection_id, the handle stored for an
\* identity is that of its latest registration, and a send_to_user call looks
\* up that handle, never an earlier one.
C2_NewestHandle ==
    /\ \A c, d \in Conns :
          (c # d /\ connection_id[c] # NoId /\ connection_id[d] # NoId)
          => connection_id[c] # connection_id[d]
    /\ \A u \in Users :
          LET h == ws_manager.user_connections[u]
          IN  h # NoConn =>
                /\ user_id[h] = u
                /\ \A d \in Conns :
                      (user_id[d] = u /\ connection_id[d] # NoId)
                      => connection_id[d] <= connection_id[h]
    /\ last.op = "send_start" =>
          LET p == pending[last.conn]
          IN  /\ user_id[p.websocket] = p.user
              /\ \A d \in Conns :
                    (user_id[d] = p.user /\ connection_id[d] # NoId)
                    => connection_id[d] <= connection_id[p.websocket]

\* C2 witness: a send_to_user call for an identity registered twice has just
\* looked up the handle of the second registration.
C2_Witness ==
    /\ last.op = "send_start"
    /\ \E d \in Conns :
          /\ d # pending[last.conn].websocket
          /\ user_id[d] = pending[last.conn].user
          /\ connection_id[d] # NoId
          /\ connection_id[d] < connection_id[pending[last.conn].websocket]

\* C3: right after register(I, h) the online list contains I; right after the
\* matching unregister(I, c) of the cleanup it does not; neither call changes
\* whether any other identity is listed.
C3_OnlineMembership ==
    [][\A c \in Conns :
         /\ (pc[c] = "auth" /\ pc'[c] = "welcome") =>
               /\ user_id'[c] \in get_online_users(ws_manager')
               /\ \A u \in Users \ {user_id'[c]} :
                     u \in get_online_users(ws_manager')
                        <=> u \in get_online_users(ws_manager)
         /\ (pc[c] = "cleanup" /\ pc'[c] = "closed") =>
               /\ ws_manager.user_connections[user_id[c]] = c
                     => user_id[c] \notin get_online_users(ws_manager')
               /\ \A u \in Users \ {user_id[c]} :
                     u \in get_online_users(ws_manager')
                        <=> u \in get_online_users(ws_manager)]_vars

\* C3 witness: a connection's cleanup has just unregistered its identity while
\* another identity, which never sent a frame, stays online.
C3_Witness ==
    /\ last.op = "cleanup"
    /\ now = 0
    /\ user_id[last.conn] \notin get_online_users(ws_manager)
    /\ \E d \in Conns :
          /\ d # last.conn
          /\ user_id[d] \notin {None, user_id[last.conn]}
          /\ pc[d] = "online"
          /\ user_id[d] \in get_online_users(ws_manager)

\* C4: a broadcast attempts one send per registered identity other than the
\* excluded one and never raises to its caller, whatever the recipients'
\* transports do.
C4_BroadcastNeverRaises ==
    last.op \in {"broadcast_online", "cleanup"} =>
        /\ ~last.raised
        /\ \A u \in Registered(ws_manager) \ {user_id[last.conn]} :
              \E i \in 1..Len(last.writes) :
                 last.writes[i].to = ws_manager.user_connections[u]

\* C5: when health_check evicts identity I, the eviction delivers user_offline
\* for I exactly once to every other registered session.
C5_EvictionBroadcastsOffline ==
    last.op = "health_check" =>
        \A I \in last.evicted :
           \A u \in Registered(ws_manager) \ {I} :
              Cardinality({i \in 1..Len(last.writes) :
                              /\ last.writes[i].to = ws_manager.user_connections[u]
                              /\ last.writes[i].ok
                              /\ last.writes[i].msg = UserOfflineMsg(I)}) = 1

\* C6: send_to_user returns True only when the write succeeded; when the write
\* fails it returns False, the caller goes on to send its receipt (nothing was
\* raised), and the target identity has no Session and is not listed online.
C6_SendFailureUnregisters ==
    (last.op = "send_message" /\ Len(last.writes) = 2) =>
        /\ last.ret = "True" <=> last.writes[1].ok
        /\ last.ret \in {"True", "False"}
        /\ last.writes[2].to = last.conn
        /\ ~last.writes[1].ok =>
              /\ last.writes[1].msg.user \notin get_online_users(ws_manager)
              /\ last.writes[1].msg.user \notin Registered(ws_manager)

\* C6 witness: a write of send_to_user has just failed.
C6_Witness ==
    /\ last.op = "send_message"
    /\ Len(last.writes) = 2
    /\ ~last.writes[1].ok
    /\ last.ret = "False"

\* C7: a send_message whose target has no connection in the registry is
\* answered at once with a failed receipt: send_to_user returned False, no
\* connection but the sender's was written to, and the registry is as the
\* touch of the sender left it.
C7_SendToUnregistered ==
    [][\A c \in Conns :
         (/\ pc[c] = "loop" /\ last'.conn = c
          /\ last'.op \in {"send_start", "send_message"}
          /\ last'.frame.target_user \notin Registered(ws_manager))
         => /\ pc'[c] = "loop"
            /\ last'.op = "send_message"
            /\ last'.ret = "False"
            /\ last'.writes = <<[to |-> c, ok |-> open[c],
                                 msg |-> ReceiptMsg(last'.frame.message_id, FALSE,
                                                    last'.frame.target_user)]>>
            /\ ws_manager' = update_user_activity(ws_manager, user_id[c], now)]_vars

\* C7 witness: a message for an identity that never registered was refused.
C7_Witness ==
    /\ last.op = "send_message"
    /\ last.frame.target_user = Stranger
    /\ last.ret = "False"
    /\ Len(last.writes) = 1

\* C8: a connection leaves AUTHENTICATING for ACTIVE only on a first frame of
\* kind auth with a non-empty user_id and a non-empty token; on any other first
\* frame or on a timeout it is closed for good, register is not called, no
\* presence event is written and the registry is unchanged.
C8_RejectedNeverActive ==
    [][\A c \in Conns :
         /\ (pc[c] = "auth" /\ pc'[c] # "auth") =>
               LET f == last'.frame
                   accepted == /\ last'.op \notin {"auth_timeout", "auth_closed"}
                               /\ f.json
                               /\ "type" \in f.keys /\ f.type = "auth"
                               /\ "data" \in f.keys
                               /\ f.user_id \notin {None, ""}
                               /\ f.token \notin {None, ""}
               IN  IF accepted
                   THEN pc'[c] = "welcome"
                   ELSE /\ pc'[c] = "closed"
                        /\ user_id'[c] = None
                        /\ next_uuid' = next_uuid
                        /\ ws_manager' = ws_manager
                        /\ \A i \in 1..Len(last'.writes) :
                              last'.writes[i].msg.type
                                 \notin {"user_online", "user_offline"}
         /\ pc[c] = "closed" => pc'[c] = "closed"]_vars

\* C8 witness: a first frame with an empty token was rejected while another
\* identity is registered.
C8_Witness ==
    /\ last.op = "auth"
    /\ last.frame.type = "auth"
    /\ last.frame.user_id = "alice"
    /\ last.frame.token = ""
    /\ pc[last.conn] = "closed"
    /\ Registered(ws_manager) # {}

\* C9: every authentication failure on a transport that is still open
\* (rejected credentials, malformed first frame, timeout) writes an error
\* envelope to the client before the connection is closed.
C9_AuthFailureSendsError ==
    [][\A c \in Conns :
         (pc[c] = "auth" /\ pc'[c] = "closed" /\ open[c])
         => last'.writes = <<[to |-> c, ok |-> TRUE, msg |-> ErrorMsg]>>]_vars

\* C10: every send_message frame of an ACTIVE connection that carries
\* target_user T and content is answered with exactly one message_receipt
\* written to the sender, echoing message_id and T; its status is delivered
\* exactly when T had a connection and the write to it succeeded, and then
\* that write is the one new_message with the content, from the sender, to T;
\* otherwise no new_message is delivered.
C10_ReceiptForEverySend ==
    LET f == last.frame IN
    (/\ last.op \notin {"init", "send_start"}
     /\ f.json /\ "type" \in f.keys /\ f.type = "send_message"
     /\ "data" \in f.keys /\ Truthy(f.target_user) /\ Truthy(f.content))
    => LET receipts == {i \in 1..Len(last.writes) :
                           last.writes[i].msg.type = "message_receipt"}
           news == {i \in 1..Len(last.writes) :
                           last.writes[i].msg.type = "new_message"}
           delivered == {i \in news : last.writes[i].ok}
       IN  /\ Cardinality(receipts) = 1
           /\ \A i \in receipts :
                 /\ last.writes[i].to = last.conn
                 /\ last.writes[i].msg.mid = f.message_id
                 /\ last.writes[i].msg.user = f.target_user
                 /\ last.writes[i].msg.status =
                       IF delivered # {} THEN "delivered" ELSE "failed"
           /\ Cardinality(news) <= 1
           /\ \A i \in news :
                 last.writes[i].msg =
                    NewMessageMsg(user_id[last.conn], f.target_user, f.content)

\* C11: a connection that registered reaches CLOSED only through its
\* cleanup, which runs at that transition and never again: it is the one call
\* unregister(identity, connection_id) of the connection (the connection_users
\* entry is there before and gone after) and it writes exactly one
\* user_offline for the identity to every other registered session; no other
\* step writes a user_offline.
C11_CleanupExactlyOnce ==
    [][\A c \in Conns :
         /\ (user_id[c] # None /\ pc[c] # "closed" /\ pc'[c] = "closed") =>
               /\ last'.op = "cleanup" /\ last'.conn = c
               /\ ws_manager.connection_users[connection_id[c]] = user_id[c]
               /\ ws_manager'.connection_users[connection_id[c]] = None
               /\ user_id[c] \notin Registered(ws_manager')
               /\ Len(last'.writes)
                     = Cardinality(Registered(ws_manager') \ {user_id[c]})
               /\ \A u \in Registered(ws_manager') \ {user_id[c]} :
                     \E i \in 1..Len(last'.writes) :
                        /\ last'.writes[i].to = ws_manager'.user_connections[u]
                        /\ last'.writes[i].msg = UserOfflineMsg(user_id[c])
         /\ (last'.op = "cleanup" /\ last'.conn = c) =>
               (pc[c] = "cleanup" /\ pc'[c] = "closed")
         /\ pc[c] = "closed" => (pc'[c] = "closed" /\ last'.conn # c)
         /\ (last'.op # "cleanup") =>
               \A i \in 1..Len(last'.writes) :
                  last'.writes[i].msg.type # "user_offline"]_vars

\* C11 witness: the cleanup of a connection has just told the one other
\* registered session that the connection's identity is offline.
C11_Witness ==
    /\ last.op = "cleanup"
    /\ pc[last.conn] = "closed"
    /\ Len(last.writes) = 1
    /\ last.writes[1].ok
    /\ last.writes[1].msg = UserOfflineMsg(user_id[last.conn])

\* C12: a ping frame of an ACTIVE connection, the bare {type: ping} included,
\* is answered with one pong on that connection and with nothing on any other.
C12_PingAnswered ==
    (/\ last.op \notin {"init", "accept"}
     /\ last.frame.json /\ "type" \in last.frame.keys
     /\ last.frame.type = "ping"
     /\ pc[last.conn] \in {"loop", "cleanup"})
    => /\ Len(last.writes) = 1
       /\ last.writes[1].to = last.conn
       /\ last.writes[1].msg = PongMsg

\* C13: handling a frame of a connection whose identity has no Session does
\* not put the identity back into the online list.
C13_TouchAbsentIsNoOp ==
    [][\A c \in Conns :
         (/\ pc[c] = "loop" /\ last'.conn = c /\ last'.frame \in LoopFrames
          /\ user_id[c] \notin get_online_users(ws_manager))
         => user_id[c] \notin get_online_users(ws_manager')]_vars

\* C14: the online list is exactly the set of identities that have a
\* connection handle in the registry.
C14_OnlineIsRegistered ==
    get_online_users(ws_manager) = Registered(ws_manager)

\* C15: a dispatcher runs its cleanup path only when its own transport has
\* closed; a failure on another connection never sends it there.
C15_OnlyOwnTransportCloses ==
    \A c \in Conns : pc[c] = "cleanup" => ~open[c]

\* C16: when the write of send_to_user fails after the target identity was
\* registered again on another connection, the failure handling leaves the
\* new Session in place.
C16_SendFailureKeepsNewSession ==
    [][\A c \in Conns :
         (/\ pc[c] = "sending" /\ pc'[c] = "loop"
          /\ ws_manager.user_connections[pending[c].user]
                \notin {NoConn, pending[c].websocket})
         => ws_manager'.user_connections[pending[c].user]
               = ws_manager.user_connections[pending[c].user]]_vars

\* C17: on the way from AUTHENTICATING to ACTIVE the dispatcher first
\* registers the Session and writes connection_established, carrying the
\* identity and the connection_id register returned, to the new connection
\* while the identity is registered with that connection; only after that
\* send has completed it broadcasts user_online for the identity to the
\* handles of all other registered identities and never to the new connection;
\* and only after the broadcast it enters the main loop. No other step writes
\* connection_established or user_online.
C17_ActivationOrder ==
    [][\A c \in Conns :
         /\ (pc[c] # "welcome" /\ pc'[c] = "welcome") =>
               /\ pc[c] = "auth" /\ last'.op = "register" /\ last'.conn = c
               /\ ws_manager'.user_connections[user_id'[c]] = c
               /\ ws_manager'.connection_users[connection_id'[c]] = user_id'[c]
               /\ Len(last'.writes) = 1
               /\ last'.writes[1].to = c
               /\ last'.writes[1].msg = WelcomeMsg(user_id'[c], connection_id'[c])
         /\ (pc[c] # "online" /\ pc'[c] = "online") =>
               (pc[c] = "welcome" /\ last'.op = "welcome" /\ ~last'.raised)
         /\ (pc[c] \notin {"loop", "sending"} /\ pc'[c] = "loop") =>
               /\ pc[c] = "online" /\ last'.op = "broadcast_online" /\ last'.conn = c
         /\ (last'.op = "broadcast_online" /\ last'.conn = c) =>
               /\ pc[c] = "online"
               /\ Len(last'.writes)
                     = Cardinality(Registered(ws_manager) \ {user_id[c]})
               /\ \A u \in Registered(ws_manager) \ {user_id[c]} :
                     \E i \in 1..Len(last'.writes) :
                        last'.writes[i].to = ws_manager.user_connections[u]
               /\ \A i \in 1..Len(last'.writes) :
                     /\ last'.writes[i].to # c
                     /\ last'.writes[i].msg = UserOnlineMsg(user_id[c])
         /\ \A i \in 1..Len(last'.writes) :
               /\ last'.writes[i].msg.type = "connection_established" =>
                     /\ last'.op = "register"
                     /\ ws_manager'.user_connections[last'.writes[i].msg.user]
                           = last'.writes[i].to
               /\ last'.writes[i].msg.type = "user_online" =>
                     last'.op = "broadcast_online"]_vars

\* C17 witness: a connection has just gone ACTIVE after telling the one other
\* registered session, and not itself, that its identity is online.
C17_Witness ==
    /\ last.op = "broadcast_online"
    /\ pc[last.conn] = "loop"
    /\ ws_manager.user_connections[user_id[last.conn]] = last.conn
    /\ Len(last.writes) = 1
    /\ last.writes[1].ok
    /\ last.writes[1].to # last.conn

\* C18: in the main loop only a frame that is not JSON or that lacks type or
\* data is dropped; every frame that carries type and data is dispatched.
C18_KindAndPayloadIsValid ==
    last.op = "dropped" =>
       \/ ~last.frame.json
       \/ ~({"type", "data"} \subseteq last.frame.keys)

\* C19: a round of the reaper evicts exactly the identities whose idle time
\* now - last_activity is strictly greater than the timeout, whatever the
\* idle time is.
C19_EvictsIffIdleBeyondTimeout ==
    [][last'.op = "health_check" =>
          last'.evicted =
             {u \in Users : /\ ws_manager.active_users[u] # NoTime
                            /\ now - ws_manager.active_users[u] > CONNECTION_TIMEOUT}]_vars

\* C20: with the reaper and the clock going on, an identity registered with
\* last activity 0 eventually has neither a handle nor an online entry, unless
\* a later frame or registration renews its last activity first; no step of
\* its connection is needed for that.
C20_IdleSessionReclaimed ==
    \A u \in Users :
       (ws_manager.active_users[u] = 0)
       ~> \/ u \notin Registered(ws_manager) /\ u \notin get_online_users(ws_manager)
          \/ ws_manager.active_users[u] > 0

\* C20 witness: the reaper has just evicted an identity whose connection is
\* still open and still in its main loop.
C20_Witness ==
    /\ last.op = "health_check"
    /\ \E c \in Conns :
          /\ pc[c] = "loop" /\ open[c]
          /\ user_id[c] \in last.evicted
          /\ user_id[c] \notin Registered(ws_manager)
          /\ user_id[c] \notin get_online_users(ws_manager)

\* C21: when an identity that has no Session authenticates, the Session that
\* register creates starts with no subscribed channels, whatever an earlier
\* Session of the identity had subscribed to.
C21_NewSessionHasNoChannels ==
    [][\A c \in Conns :
         (/\ last'.op = "register" /\ last'.conn = c
          /\ user_id'[c] \notin Registered(ws_manager)
          /\ user_id'[c] \notin get_online_users(ws_manager))
         => ws_manager'.user_channels[user_id'[c]] = {}]_vars

====
